---- MODULE Spec2Model ----
(***************************************************************************)
(* Ramadan Companion: the AppState document, its pure transforms and its   *)
(* derived statistics (src/src/lib/analytics.ts, "State Management (v4)"). *)
(*                                                                         *)
(* A calendar-date string "YYYY-MM-DD" is represented by the number        *)
(* YYYYMMDD: the strings are zero padded, so their lexicographic order     *)
(* (used by `date > today` and by sort()) is the order of these numbers.   *)
(* A JavaScript object used as a map is a function whose DOMAIN is the set *)
(* of keys present; a missing key reads as undefined.                      *)
(*                                                                         *)
(* The pure transforms never touch storage or the reminder module: the     *)
(* specifications that drive the transforms alone leave both as they are;  *)
(* the UI handlers, which save after a transform, have their own actions.  *)
(***************************************************************************)
EXTENDS Integers, Sequences, FiniteSets, TLC

VARIABLES
    state,      \* the AppState document the UI holds in memory
    today,      \* the date getDateString() answers
    stored,     \* the text under the storage key of the document
    reminder,   \* the reminder module: stored preference, timers, calls in flight
    selected    \* the date of the day the journey grid has open (selectedHex)

vars == <<state, today, stored, reminder, selected>>

-----------------------------------------------------------------------------
(* Bounds of the model *)

\* number of consecutive calendar dates the user addresses
NumDays == 2
\* longest list handed to addHabits in one call
MaxBatch == 2
\* longest dailyHabits list the setup model lets grow
MaxHabits == 3
\* longest monthlyGoals list the setup model lets grow or install
MaxGoals == 2

\* dates of the calendar window
NumCalDays == 3

\* largest count handed to setMonthlyGoalCount
MaxCount == 6

\* largest number of days a date is shifted by, either way
MaxShift == 35

-----------------------------------------------------------------------------
(* Date helpers *)

\* getDateString: `${y}-${m}-${d}` with month and day padded to two digits
DateStr(y, m, d) == y * 10000 + m * 100 + d

\* dateStr.split("-").map(Number)
YearOf(dateStr) == dateStr \div 10000
MonthOf(dateStr) == (dateStr \div 100) % 100
DayOf(dateStr) == dateStr % 100

IsLeapYear(y) == (y % 4 = 0 /\ y % 100 # 0) \/ y % 400 = 0

DaysInMonth(y, m) ==
    IF m = 2 THEN (IF IsLeapYear(y) THEN 29 ELSE 28)
    ELSE IF m \in {4, 6, 9, 11} THEN 30 ELSE 31

\* new Date(y, m - 1, d) / Date.setDate: a day of month outside the month
\* rolls over into the neighbouring months and years
RECURSIVE NormalizeDate(_, _, _)
NormalizeDate(y, m, d) ==
    IF d < 1
    THEN IF m = 1
         THEN NormalizeDate(y - 1, 12, d + DaysInMonth(y - 1, 12))
         ELSE NormalizeDate(y, m - 1, d + DaysInMonth(y, m - 1))
    ELSE IF d > DaysInMonth(y, m)
    THEN IF m = 12
         THEN NormalizeDate(y + 1, 1, d - DaysInMonth(y, m))
         ELSE NormalizeDate(y, m + 1, d - DaysInMonth(y, m))
    ELSE DateStr(y, m, d)

addDays(dateStr, days) ==
    NormalizeDate(YearOf(dateStr), MonthOf(dateStr), DayOf(dateStr) + days)

\* leap days of the years 1 .. y
LeapDaysThrough(y) == (y \div 4) - (y \div 100) + (y \div 400)

RECURSIVE DaysBeforeMonth(_, _)
DaysBeforeMonth(y, m) ==
    IF m = 1 THEN 0 ELSE DaysBeforeMonth(y, m - 1) + DaysInMonth(y, m - 1)

\* 1000 * 60 * 60 * 24 milliseconds. Times are counted in minutes here: the
\* time of a date-only string is a whole number of minutes, the quotient
\* of two times is the same in either unit, and the millisecond values of
\* these years are beyond the integers of the model checker
MinutesPerDay == 60 * 24

\* new Date("YYYY-MM-DD").getTime(): a date-only string is read as midnight
\* UTC, so the time is a whole number of days since 1970-01-01
DateGetTime(dateStr) ==
    LET y == YearOf(dateStr)
        daysSinceEpoch ==
            365 * (y - 1970) + LeapDaysThrough(y - 1) - LeapDaysThrough(1969)
            + DaysBeforeMonth(y, MonthOf(dateStr)) + (DayOf(dateStr) - 1)
    IN  daysSinceEpoch * MinutesPerDay

getRamadanDay_Clamped(dateStr, startDate) ==
    LET day == ((DateGetTime(dateStr) - DateGetTime(startDate)) \div MinutesPerDay) + 1
    IN  IF day < 1 THEN 1 ELSE IF day > 30 THEN 30 ELSE day

\* Math.floor of the quotient is \div, which rounds towards minus infinity
getRamadanDay(dateStr, startDate) ==
    ((DateGetTime(dateStr) - DateGetTime(startDate)) \div MinutesPerDay) + 1

-----------------------------------------------------------------------------
(* Catalog and inputs *)

ALL_BASIC_IDS == <<"fajr", "dhuhr", "asr", "maghrib", "isha", "fasting">>

APP_STATE_VERSION == 4

RAMADAN_DAYS == 30

\* first date of the window the user works in (the last day of a month, so
\* that the window crosses a month boundary)
FirstDate == DateStr(2026, 2, 28)

Dates == {addDays(FirstDate, i) : i \in 0 .. NumDays - 1}

LastDate == addDays(FirstDate, NumDays - 1)

\* the calendar window: long enough for a gap between two recorded days
CalDates == {addDays(FirstDate, i) : i \in 0 .. NumCalDays - 1}

LastCalDate == addDays(FirstDate, NumCalDays - 1)

\* first days of the month: the default one, and one inside the window
StartDates == {DateStr(2026, 2, 18), addDays(FirstDate, 1)}

\* ids the user hands to the transforms
BasicInputs == {"fajr"}
HabitIds == {"h1"}
SetupHabitIds == {"h1", "h2"}
GoalIds == {"g1", "g2"}
Targets == {10, 20}
Texts == {"", "First"}

\* DailyHabit (the fields the state engine reads)
Habit(id, enabled) == [id |-> id, enabled |-> enabled]

\* MonthlyGoal (the fields the state engine reads)
Goal(id, target) == [id |-> id, target |-> target]

HabitInputs == {Habit(id, e) : id \in HabitIds, e \in BOOLEAN}
SetupHabitInputs == {Habit(id, e) : id \in SetupHabitIds, e \in BOOLEAN}
GoalInputs == {Goal(id, t) : id \in GoalIds, t \in Targets}

\* the goal whose counts are tracked: a gallery goal with the user's target
TrackedGoalIds == {"monthly-charity"}
TrackedGoals == {Goal(id, 5) : id \in TrackedGoalIds}
CountInputs == -1 .. MaxCount

\* all lists of at most n elements of S
SeqsUpTo(S, n) == UNION {[1 .. k -> S] : k \in 0 .. n}

-----------------------------------------------------------------------------
(* JavaScript objects as maps *)

EmptyMap == <<>>

Has(map, key) == key \in DOMAIN map

\* { ...map, [key]: value }
Put(map, key, value) ==
    [k \in DOMAIN map \cup {key} |-> IF k = key THEN value ELSE map[k]]

\* map[key] === true; a missing key is undefined
IsTrue(map, key) == Has(map, key) /\ map[key] = TRUE

\* Object.fromEntries(ids.map((id) => [id, value]))
FromEntries(ids, value) == [k \in {ids[i] : i \in DOMAIN ids} |-> value]

\* array.includes(x)
Includes(seq, x) == \E i \in DOMAIN seq : seq[i] = x

\* the empty string where a date string is expected
NoDate == 0

\* Object.keys(map).sort(): the keys in ascending order
RECURSIVE SortedKeys(_)
SortedKeys(map) ==
    IF DOMAIN map = {} THEN <<>>
    ELSE LET first == CHOOSE k \in DOMAIN map : \A j \in DOMAIN map : k <= j
         IN  <<first>> \o SortedKeys([k \in DOMAIN map \ {first} |-> map[k]])

\* obj[key] ?? fallback, and obj[key] || fallback where the value, when
\* present, is an object, an array or a boolean with fallback false
Field(obj, key, fallback) == IF Has(obj, key) THEN obj[key] ELSE fallback

\* obj[key] || fallback for a string: the empty string is falsy too
OrString(obj, key, fallback) ==
    IF Has(obj, key) /\ obj[key] # "" THEN obj[key] ELSE fallback

\* obj[key] || fallback for a date string
OrDate(obj, key, fallback) ==
    IF Has(obj, key) /\ obj[key] # NoDate THEN obj[key] ELSE fallback

\* a value of type number | boolean (Record<string, number | boolean>), with
\* the type typeof answers; the field of the other type is a filler
JSNumber(n) == [type |-> "number", num |-> n, bool |-> FALSE]

JSBoolean(b) == [type |-> "boolean", num |-> 0, bool |-> b]

-----------------------------------------------------------------------------
(* Default state *)

getDefaultState(locale) ==
    [version |-> APP_STATE_VERSION,
     locale |-> locale,
     setupComplete |-> FALSE,
     ramadanStartDate |-> DateStr(2026, 2, 18),
     enabledBasics |-> ALL_BASIC_IDS,
     dailyHabits |-> <<>>,
     monthlyGoals |-> <<>>,
     days |-> EmptyMap]

-----------------------------------------------------------------------------
(* Migration.  A parsed document of an older version is an object that may *)
(* lack any key; a key that is present holds a value of the expected type. *)
(* Of an action and a goal only the fields the state engine reads are kept *)

\* the gallery of monthly goals: id and defaultTarget
MONTHLY_GOALS_GALLERY ==
    <<[id |-> "monthly-charity", defaultTarget |-> 4],
      [id |-> "monthly-quran-khatm", defaultTarget |-> 1],
      [id |-> "monthly-family-iftar", defaultTarget |-> 4],
      [id |-> "monthly-lecture", defaultTarget |-> 8],
      [id |-> "monthly-visit-sick", defaultTarget |-> 3],
      [id |-> "monthly-itikaf", defaultTarget |-> 10],
      [id |-> "monthly-feed-fasting", defaultTarget |-> 10],
      [id |-> "monthly-night-prayer", defaultTarget |-> 15]>>

\* the items find() can return: the first match, or none (undefined)
findMonthlyGoalGallery(id) == SelectSeq(MONTHLY_GOALS_GALLERY, LAMBDA g : g.id = id)

replaceWeekly_Unchanged(id) == id

\* id.replace("weekly-", "monthly-"), on the ids of the model
replaceWeekly(id) ==
    CASE id = "weekly-charity" -> "monthly-charity"
      [] id = "weekly-itikaf" -> "monthly-itikaf"
      [] id = "weekly-retired" -> "monthly-retired"
      [] OTHER -> id

migrateToV3_NoDays(old) ==
    [version |-> 3,
     locale |-> OrString(old, "locale", "en"),
     setupComplete |-> Field(old, "setupComplete", FALSE),
     ramadanStartDate |-> OrDate(old, "ramadanStartDate", DateStr(2026, 2, 18)),
     enabledBasics |-> Field(old, "enabledBasics", ALL_BASIC_IDS),
     actions |-> Field(old, "actions", <<>>),
     weeklyGoals |-> Field(old, "weeklyGoals", <<>>),
     days |-> EmptyMap]

\* source and addedAt, which the map adds to an action, are not modelled
migrateToV3(old) ==
    LET oldDays == Field(old, "days", EmptyMap)
    IN  [version |-> 3,
         locale |-> OrString(old, "locale", "en"),
         setupComplete |-> Field(old, "setupComplete", FALSE),
         ramadanStartDate |-> OrDate(old, "ramadanStartDate", DateStr(2026, 2, 18)),
         enabledBasics |-> Field(old, "enabledBasics", ALL_BASIC_IDS),
         actions |-> Field(old, "actions", <<>>),
         weeklyGoals |-> Field(old, "weeklyGoals", <<>>),
         days |->
            [date \in DOMAIN oldDays |->
                [basics |-> Field(oldDays[date], "basics",
                                  FromEntries(ALL_BASIC_IDS, TRUE)),
                 completions |-> Field(oldDays[date], "completions", EmptyMap),
                 weeklyCompletions |->
                    Field(oldDays[date], "weeklyCompletions", EmptyMap),
                 reflection |-> OrString(oldDays[date], "reflection", "")]]]

\* oldGoalIds.map(...).filter(g => g !== null)
RECURSIVE GalleryGoals(_)
GalleryGoals(oldGoalIds) ==
    IF oldGoalIds = <<>> THEN <<>>
    ELSE LET found == findMonthlyGoalGallery(replaceWeekly(Head(oldGoalIds)))
         IN  (IF found # <<>>
              THEN <<Goal(found[1].id, found[1].defaultTarget)>>
              ELSE <<>>) \o GalleryGoals(Tail(oldGoalIds))

\* the monthlyGoalCompletions built from weeklyCompletions: each value is
\* kept as it is under the renamed key (two old keys with one new name do
\* not occur in the documents of the model)
renamedCompletions(weeklyCompletions) ==
    [newKey \in {replaceWeekly(key) : key \in DOMAIN weeklyCompletions} |->
        JSBoolean(weeklyCompletions[
            CHOOSE key \in DOMAIN weeklyCompletions : replaceWeekly(key) = newKey])]

migrateToV4(old) ==
    LET state0 == getDefaultState(OrString(old, "locale", "en"))
        actions == Field(old, "actions", <<>>)
    IN  [state0 EXCEPT
            !.setupComplete = Field(old, "setupComplete", FALSE),
            !.ramadanStartDate =
                OrDate(old, "ramadanStartDate", DateStr(2026, 2, 18)),
            !.enabledBasics = Field(old, "enabledBasics", ALL_BASIC_IDS),
            !.dailyHabits =
                [i \in DOMAIN actions |->
                    Habit(actions[i].id, Field(actions[i], "enabled", TRUE))],
            !.monthlyGoals = GalleryGoals(Field(old, "weeklyGoals", <<>>)),
            !.days =
                IF Has(old, "days")
                THEN [date \in DOMAIN old.days |->
                        LET oldEntry == old.days[date]
                        IN  [basics |-> Field(oldEntry, "basics",
                                              FromEntries(ALL_BASIC_IDS, TRUE)),
                             completions |-> Field(oldEntry, "completions", EmptyMap),
                             monthlyGoalCompletions |->
                                IF Has(oldEntry, "weeklyCompletions")
                                THEN renamedCompletions(oldEntry.weeklyCompletions)
                                ELSE EmptyMap,
                             reflection |-> OrString(oldEntry, "reflection", "")]]
                ELSE state0.days]

-----------------------------------------------------------------------------
(* Persistence.  The text under the storage key, or the text of an import  *)
(* file, is absent, empty, not JSON, or the JSON text of a value; a value  *)
(* is an object (a function of its keys) or one of the values below        *)

\* JSON null: reading a property of it throws a TypeError
JSNull == [jstype |-> "null"]

\* a JSON number or string: every property reads undefined
JSScalar == [jstype |-> "scalar"]

\* a JSON array: typeof answers "object", version reads undefined
JSArray == [jstype |-> "array"]

IsObject(v) == ~Has(v, "jstype")

AbsentText == [kind |-> "absent"]

EmptyText == [kind |-> "empty"]

MalformedText == [kind |-> "malformed"]

\* JSON.stringify(value): the values of a document are strings, numbers,
\* booleans, arrays and objects, which JSON.parse gives back as they were
JSONstringify(value) == [kind |-> "json", value |-> value]

\* parsed.version < n: undefined < n is false
VersionBelow(parsed, n) == Has(parsed, "version") /\ parsed.version < n

\* the browser branch; every exception inside try returns the default
loadState(raw) ==
    IF raw.kind \in {"absent", "empty"} THEN getDefaultState("en")
    ELSE IF raw.kind = "malformed" THEN getDefaultState("en")
    ELSE LET parsed == raw.value
         IN  IF parsed = JSNull THEN getDefaultState("en")
             ELSE IF VersionBelow(parsed, 3) THEN migrateToV4(migrateToV3(parsed))
             ELSE IF VersionBelow(parsed, 4) THEN migrateToV4(parsed)
             ELSE parsed

saveState_NoWrite(s) == EmptyText

\* the text under the storage key after saveState(s), when setItem succeeds
saveState(s) == JSONstringify(s)

exportData(s) == JSONstringify(s)

importData_AlwaysMigrate(json) ==
    IF json.kind \in {"empty", "malformed"} THEN JSNull
    ELSE LET parsed == json.value
         IN  IF /\ parsed # JSNull
                /\ parsed # JSScalar
                /\ Has(parsed, "version")
                /\ parsed.version # 0
             THEN migrateToV4(migrateToV3(parsed))
             ELSE JSNull

\* the result null is JSNull
importData(json) ==
    IF json.kind \in {"empty", "malformed"} THEN JSNull
    ELSE LET parsed == json.value
         IN  IF /\ parsed # JSNull
                /\ parsed # JSScalar
                /\ Has(parsed, "version")
                /\ parsed.version # 0
             THEN IF parsed.version < 3 THEN migrateToV4(migrateToV3(parsed))
                  ELSE IF parsed.version < 4 THEN migrateToV4(parsed)
                  ELSE parsed
             ELSE JSNull

\* { k: full[k] for k in keys }: an object that has only some of the keys
Restrict(full, keys) == [k \in keys |-> full[k]]

StoredVersions == {0, 2, 3, 4, 5}

SettingsKeys == {"locale", "setupComplete", "ramadanStartDate"}

\* the days of a document written by an older version: an entry with every
\* field, and an entry that has completions only
OldDays ==
    {(FirstDate :> [basics |-> [fajr |-> TRUE],
                    completions |-> [h1 |-> TRUE],
                    weeklyCompletions |-> ("weekly-charity" :> TRUE),
                    reflection |-> "First"]),
     (FirstDate :> [completions |-> [h1 |-> TRUE]])}

OldFull(v, days) ==
    [version |-> v,
     locale |-> "ar",
     setupComplete |-> TRUE,
     ramadanStartDate |-> addDays(FirstDate, 1),
     enabledBasics |-> <<"fajr", "fasting">>,
     actions |-> <<[id |-> "h1"], [id |-> "h2", enabled |-> FALSE]>>,
     weeklyGoals |-> <<"weekly-charity", "weekly-retired">>,
     days |-> days]

OldKeySets ==
    {vk \cup sk \cup ok :
        vk \in {{}, {"version"}},
        sk \in {{}, SettingsKeys},
        ok \in SUBSET {"enabledBasics", "actions", "weeklyGoals", "days"}}

OldObjects ==
    {Restrict(OldFull(v, days), keys) :
        v \in StoredVersions, days \in OldDays, keys \in OldKeySets}

\* a document in the layout of the current version, under any version number
CurrentFull(v) ==
    [version |-> v,
     locale |-> "ar",
     setupComplete |-> TRUE,
     ramadanStartDate |-> addDays(FirstDate, 1),
     enabledBasics |-> <<"fajr", "fasting">>,
     dailyHabits |-> <<Habit("h1", TRUE)>>,
     monthlyGoals |-> <<Goal("monthly-charity", 5)>>,
     days |-> (FirstDate :> [basics |-> [fajr |-> TRUE, fasting |-> FALSE],
                             completions |-> [h1 |-> TRUE],
                             monthlyGoalCompletions |->
                                ("monthly-charity" :> JSNumber(2)),
                             reflection |-> "First"])]

CurrentKeySets ==
    {vk \cup sk \cup ok :
        vk \in {{}, {"version"}},
        sk \in {{}, SettingsKeys},
        ok \in SUBSET {"enabledBasics", "dailyHabits", "monthlyGoals", "days"}}

CurrentObjects ==
    {Restrict(CurrentFull(v), keys) : v \in StoredVersions, keys \in CurrentKeySets}

JSONValues == {JSNull, JSScalar, JSArray} \cup OldObjects \cup CurrentObjects

\* what can be found under the storage key
StoredTexts ==
    {AbsentText, EmptyText, MalformedText} \cup {JSONstringify(v) : v \in JSONValues}

\* what an import file can hold
ImportTexts == StoredTexts \ {AbsentText}

-----------------------------------------------------------------------------
(* The reminder module (src/src/lib/notifications.ts) *)

\* scheduledTimer = null
NoTimer == 0

\* a fresh page with nothing stored: loadReminderPrefs answers
\* { enabled: false }, no timer is set and no call is in flight
NoReminder ==
    [enabled |-> FALSE,
     permission |-> "default",
     scheduledTimer |-> NoTimer,
     pending |-> {},
     asking |-> 0,
     atReady |-> 0,
     atShow |-> 0,
     off |-> FALSE,
     notified |-> FALSE]

\* reminder.enabled is the enabled field of the preference under the
\* reminder's storage key; permission is Notification.permission; pending
\* is the set of timers set by setTimeout that have neither fired nor been
\* cleared; asking, atReady and atShow count the calls suspended at
\* `await requestPermission()`, `await navigator.serviceWorker?.ready` and
\* `await reg.showNotification(...)`. Two fields record history: off holds
\* from the return of a disableReminder that found no enableReminder call
\* suspended to the next call of enableReminder, notified says a
\* notification was shown since off began to hold.

\* number of timer ids the model hands out
MaxTimers == 2
\* largest number of calls suspended at one await
MaxInFlight == 1

TimerIds == 1 .. MaxTimers

Permissions == {"default", "granted", "denied"}

\* clearTimeout(id): a timer that fired or was cleared is not pending
clearTimeout(pending, id) == pending \ {id}

\* setTimeout answers an id no live timer has, and not the one just cleared
FreshTimer(r) ==
    CHOOSE id \in TimerIds \ (r.pending \cup {r.scheduledTimer}) :
        \A other \in TimerIds \ (r.pending \cup {r.scheduledTimer}) : id <= other

CanSetTimer(r) == TimerIds \ (r.pending \cup {r.scheduledTimer}) # {}

scheduleNextReminder_NoClear(r) ==
    [r EXCEPT !.scheduledTimer = FreshTimer(r),
              !.pending = r.pending \cup {FreshTimer(r)}]

scheduleNextReminder(r) ==
    LET cleared == IF r.scheduledTimer # NoTimer
                   THEN clearTimeout(r.pending, r.scheduledTimer)
                   ELSE r.pending
    IN  [r EXCEPT !.scheduledTimer = FreshTimer(r),
                  !.pending = cleared \cup {FreshTimer(r)}]

\* enableReminder with permission already granted: requestPermission
\* answers without a prompt and the call runs to its end; otherwise the
\* call is suspended until the user answers the prompt
EnableReminder ==
    /\ IF reminder.permission = "granted"
       THEN /\ CanSetTimer(reminder)
            /\ reminder' = scheduleNextReminder(
                               [reminder EXCEPT !.enabled = TRUE,
                                                !.off = FALSE,
                                                !.notified = FALSE])
       ELSE /\ reminder.asking < MaxInFlight
            /\ reminder' = [reminder EXCEPT !.asking = @ + 1,
                                            !.off = FALSE,
                                            !.notified = FALSE]
    /\ UNCHANGED <<state, today, stored, selected>>

\* Notification.requestPermission() resolves and enableReminder resumes
PermissionAnswered ==
    /\ reminder.asking > 0
    /\ \E answer \in Permissions :
          LET r == [reminder EXCEPT !.asking = @ - 1, !.permission = answer]
          IN  IF answer # "granted"
              THEN reminder' = r
              ELSE /\ CanSetTimer(r)
                   /\ reminder' = scheduleNextReminder([r EXCEPT !.enabled = TRUE])
    /\ UNCHANGED <<state, today, stored, selected>>

\* the user takes the permission back in the browser's settings
PermissionRevoked ==
    /\ reminder.permission = "granted"
    /\ reminder' = [reminder EXCEPT !.permission = "denied"]
    /\ UNCHANGED <<state, today, stored, selected>>

DisableReminder ==
    /\ reminder' =
          [reminder EXCEPT
              !.pending = IF reminder.scheduledTimer # NoTimer
                          THEN clearTimeout(reminder.pending, reminder.scheduledTimer)
                          ELSE reminder.pending,
              !.scheduledTimer = NoTimer,
              !.enabled = FALSE,
              !.off = (reminder.asking = 0),
              !.notified = FALSE]
    /\ UNCHANGED <<state, today, stored, selected>>

InitReminders ==
    /\ reminder.enabled /\ reminder.permission = "granted"
    /\ CanSetTimer(reminder)
    /\ reminder' = scheduleNextReminder(reminder)
    /\ UNCHANGED <<state, today, stored, selected>>

\* the end of showReminder, after the notification: the preference read
\* before the awaits, which has enabled = true, is saved with lastShown,
\* and the next timer is set
AfterNotification(r) ==
    scheduleNextReminder(
        [r EXCEPT !.enabled = TRUE,
                  !.notified = r.notified \/ (r.off /\ r.permission = "granted")])

\* a timer fires and showReminder runs to its first await; with no service
\* worker in the browser it runs to its end
TimerFires ==
    /\ \E id \in reminder.pending, serviceWorker \in BOOLEAN :
          LET r == [reminder EXCEPT !.pending = clearTimeout(reminder.pending, id)]
          IN  IF ~r.enabled \/ r.permission # "granted"
              THEN reminder' = r
              ELSE IF serviceWorker
              THEN /\ r.atReady < MaxInFlight
                   /\ reminder' = [r EXCEPT !.atReady = @ + 1]
              ELSE /\ CanSetTimer(r)
                   /\ reminder' = AfterNotification(r)
    /\ UNCHANGED <<state, today, stored, selected>>

\* navigator.serviceWorker.ready resolves: showNotification is called
ReadyResolves ==
    /\ reminder.atReady > 0
    /\ reminder.atShow < MaxInFlight
    /\ reminder' = [reminder EXCEPT !.atReady = @ - 1, !.atShow = @ + 1]
    /\ UNCHANGED <<state, today, stored, selected>>

\* showNotification settles (a rejection falls back to new Notification)
ShowSettles ==
    /\ reminder.atShow > 0
    /\ CanSetTimer(reminder)
    /\ reminder' = AfterNotification([reminder EXCEPT !.atShow = @ - 1])
    /\ UNCHANGED <<state, today, stored, selected>>

InitReminder ==
    /\ state = getDefaultState("en")
    /\ today = FirstDate
    /\ stored = AbsentText
    /\ reminder = NoReminder
    /\ selected = NoDate

NextReminder ==
    \/ EnableReminder
    \/ PermissionAnswered
    \/ PermissionRevoked
    \/ DisableReminder
    \/ InitReminders
    \/ TimerFires
    \/ ReadyResolves
    \/ ShowSettles

SpecReminder == InitReminder /\ [][NextReminder]_vars

-----------------------------------------------------------------------------
(* Pure state transforms *)

completeSetup(s) == [s EXCEPT !.setupComplete = TRUE]

setLocale(s, locale) == [s EXCEPT !.locale = locale]

setRamadanStartDate(s, date) == [s EXCEPT !.ramadanStartDate = date]

toggleBasicEnabled(s, basicId) ==
    [s EXCEPT !.enabledBasics =
        IF Includes(s.enabledBasics, basicId)
        THEN SelectSeq(s.enabledBasics, LAMBDA id : id # basicId)
        ELSE Append(s.enabledBasics, basicId)]

addHabit_NoGuard(s, habit) ==
    [s EXCEPT !.dailyHabits = Append(s.dailyHabits, habit)]

addHabit(s, habit) ==
    IF \E i \in DOMAIN s.dailyHabits : s.dailyHabits[i].id = habit.id
    THEN s
    ELSE [s EXCEPT !.dailyHabits = Append(s.dailyHabits, habit)]

addHabits(s, habits) ==
    LET existing == {s.dailyHabits[i].id : i \in DOMAIN s.dailyHabits}
        newHabits == SelectSeq(habits, LAMBDA h : h.id \notin existing)
    IN  [s EXCEPT !.dailyHabits = s.dailyHabits \o newHabits]

removeHabit(s, habitId) ==
    [s EXCEPT !.dailyHabits = SelectSeq(s.dailyHabits, LAMBDA h : h.id # habitId)]

toggleHabitEnabled_DisableOnly(s, habitId) ==
    [s EXCEPT !.dailyHabits =
        [i \in DOMAIN s.dailyHabits |->
            IF s.dailyHabits[i].id = habitId
            THEN [s.dailyHabits[i] EXCEPT !.enabled = FALSE]
            ELSE s.dailyHabits[i]]]

toggleHabitEnabled(s, habitId) ==
    [s EXCEPT !.dailyHabits =
        [i \in DOMAIN s.dailyHabits |->
            IF s.dailyHabits[i].id = habitId
            THEN [s.dailyHabits[i] EXCEPT !.enabled = ~s.dailyHabits[i].enabled]
            ELSE s.dailyHabits[i]]]

addMonthlyGoal(s, goal) ==
    IF \E i \in DOMAIN s.monthlyGoals : s.monthlyGoals[i].id = goal.id
    THEN s
    ELSE [s EXCEPT !.monthlyGoals = Append(s.monthlyGoals, goal)]

removeMonthlyGoal(s, goalId) ==
    [s EXCEPT !.monthlyGoals = SelectSeq(s.monthlyGoals, LAMBDA g : g.id # goalId)]

setMonthlyGoals(s, goals) == [s EXCEPT !.monthlyGoals = goals]

updateMonthlyGoalTarget(s, goalId, target) ==
    [s EXCEPT !.monthlyGoals =
        [i \in DOMAIN s.monthlyGoals |->
            IF s.monthlyGoals[i].id = goalId
            THEN [s.monthlyGoals[i] EXCEPT !.target = target]
            ELSE s.monthlyGoals[i]]]

\* the DayEntry ensureDayEntry inserts
NewDayEntry(s) ==
    [basics |-> FromEntries(s.enabledBasics, FALSE),
     completions |-> EmptyMap,
     monthlyGoalCompletions |-> EmptyMap,
     reflection |-> ""]

ensureDayEntry_Overwrite(s, date) ==
    [s EXCEPT !.days = Put(s.days, date, NewDayEntry(s))]

ensureDayEntry_Checked(s, date) ==
    IF Has(s.days, date)
    THEN s
    ELSE [s EXCEPT !.days =
            Put(s.days, date,
                [NewDayEntry(s) EXCEPT !.basics = FromEntries(s.enabledBasics, TRUE)])]

ensureDayEntry(s, date) ==
    IF Has(s.days, date)
    THEN s
    ELSE [s EXCEPT !.days = Put(s.days, date, NewDayEntry(s))]

toggleBasicCompletion(s, date, basicId) ==
    LET s1 == ensureDayEntry(s, date)
        day == s1.days[date]
    IN  [s1 EXCEPT !.days =
            Put(s1.days, date,
                [day EXCEPT !.basics = Put(day.basics, basicId, ~IsTrue(day.basics, basicId))])]

toggleCompletion_SetOnly(s, date, actionId) ==
    LET s1 == ensureDayEntry(s, date)
        day == s1.days[date]
    IN  [s1 EXCEPT !.days =
            Put(s1.days, date,
                [day EXCEPT !.completions = Put(day.completions, actionId, TRUE)])]

toggleCompletion(s, date, actionId) ==
    LET s1 == ensureDayEntry(s, date)
        day == s1.days[date]
    IN  [s1 EXCEPT !.days =
            Put(s1.days, date,
                [day EXCEPT !.completions =
                    Put(day.completions, actionId, ~IsTrue(day.completions, actionId))])]

\* a missing key reads undefined, which is not a number and is falsy
toggleMonthlyGoalCompletion(s, date, goalId) ==
    LET s1 == ensureDayEntry(s, date)
        day == s1.days[date]
        on == IF ~Has(day.monthlyGoalCompletions, goalId) THEN FALSE
              ELSE LET current == day.monthlyGoalCompletions[goalId]
                   IN  IF current.type = "number" THEN current.num > 0
                       ELSE current.bool
        newVal == IF on THEN 0 ELSE 1
    IN  [s1 EXCEPT !.days =
            Put(s1.days, date,
                [day EXCEPT !.monthlyGoalCompletions =
                    Put(day.monthlyGoalCompletions, goalId, JSNumber(newVal))])]

MathMax(a, b) == IF a >= b THEN a ELSE b

setMonthlyGoalCount_NoClamp(s, date, goalId, count) ==
    LET s1 == ensureDayEntry(s, date)
        day == s1.days[date]
    IN  [s1 EXCEPT !.days =
            Put(s1.days, date,
                [day EXCEPT !.monthlyGoalCompletions =
                    Put(day.monthlyGoalCompletions, goalId, JSNumber(count))])]

setMonthlyGoalCount(s, date, goalId, count) ==
    LET s1 == ensureDayEntry(s, date)
        day == s1.days[date]
    IN  [s1 EXCEPT !.days =
            Put(s1.days, date,
                [day EXCEPT !.monthlyGoalCompletions =
                    Put(day.monthlyGoalCompletions, goalId,
                        JSNumber(MathMax(0, count)))])]

getMonthlyGoalDayCount(entry, goalId) ==
    IF ~Has(entry.monthlyGoalCompletions, goalId) THEN 0
    ELSE LET val == entry.monthlyGoalCompletions[goalId]
         IN  IF val.type = "number" THEN val.num
             ELSE IF val.bool THEN 1
             ELSE 0

setReflection_FreshEntry(s, date, text) ==
    [s EXCEPT !.days = Put(s.days, date, [NewDayEntry(s) EXCEPT !.reflection = text])]

setReflection(s, date, text) ==
    LET s1 == ensureDayEntry(s, date)
    IN  [s1 EXCEPT !.days =
            Put(s1.days, date, [s1.days[date] EXCEPT !.reflection = text])]

-----------------------------------------------------------------------------
(* Derived statistics *)

\* Math.round(num / den) for num >= 0 and den > 0: the nearest integer, a tie
\* going up.  The source rounds the double (totalDone / totalItems) * 100; for
\* every totalItems up to 40 the double lands on the same integer.
MathRound_Floor(num, den) == num \div den

MathRound(num, den) == (2 * num + den) \div (2 * den)

\* state.enabledBasics.filter((id) => entry.basics[id] === true).length
basicsDoneOf_AnyChecked(s, entry) ==
    Cardinality({id \in DOMAIN entry.basics : entry.basics[id] = TRUE})

basicsDoneOf(s, entry) ==
    Len(SelectSeq(s.enabledBasics, LAMBDA id : IsTrue(entry.basics, id)))

\* totalItems > 0 ? Math.round((totalDone / totalItems) * 100) : 100
percentOf_EmptyIsZero(totalDone, totalItems) ==
    IF totalItems > 0 THEN MathRound(totalDone * 100, totalItems) ELSE 0

percentOf(totalDone, totalItems) ==
    IF totalItems > 0 THEN MathRound(totalDone * 100, totalItems) ELSE 100

\* a value of monthlyGoalCompletions passes filter(Boolean)
Truthy(v) == IF v.type = "number" THEN v.num # 0 ELSE v.bool

noEntryStats_CountsHabits(s) ==
    [basicsTotal |-> Len(s.enabledBasics),
     basicsDone |-> 0,
     dailyTotal |-> Len(SelectSeq(s.dailyHabits, LAMBDA h : h.enabled)),
     dailyDone |-> 0,
     monthlyDone |-> 0,
     percent |-> 0]

\* the stats of a date that has no entry
noEntryStats(s) ==
    [basicsTotal |-> Len(s.enabledBasics),
     basicsDone |-> 0,
     dailyTotal |-> 0,
     dailyDone |-> 0,
     monthlyDone |-> 0,
     percent |-> 0]

getDayStats(s, date) ==
    IF ~Has(s.days, date)
    THEN noEntryStats(s)
    ELSE LET entry == s.days[date]
             basicsTotal == Len(s.enabledBasics)
             basicsDone == basicsDoneOf(s, entry)
             todayHabits == SelectSeq(s.dailyHabits, LAMBDA h : h.enabled)
             dailyTotal == Len(todayHabits)
             dailyDone ==
                 Len(SelectSeq(todayHabits, LAMBDA h : IsTrue(entry.completions, h.id)))
             monthlyDone ==
                 Cardinality({k \in DOMAIN entry.monthlyGoalCompletions :
                                 Truthy(entry.monthlyGoalCompletions[k])})
             totalItems == basicsTotal + dailyTotal
             totalDone == basicsDone + dailyDone
         IN  [basicsTotal |-> basicsTotal,
              basicsDone |-> basicsDone,
              dailyTotal |-> dailyTotal,
              dailyDone |-> dailyDone,
              monthlyDone |-> monthlyDone,
              percent |-> percentOf(totalDone, totalItems)]

progressStep_NumbersOnly(entry, goalId) ==
    IF ~Has(entry.monthlyGoalCompletions, goalId) THEN 0
    ELSE LET val == entry.monthlyGoalCompletions[goalId]
         IN  IF val.type = "number" THEN val.num ELSE 0

\* what one entry adds to count in getMonthlyGoalProgress
progressStep(entry, goalId) ==
    IF ~Has(entry.monthlyGoalCompletions, goalId) THEN 0
    ELSE LET val == entry.monthlyGoalCompletions[goalId]
         IN  IF val.type = "number" THEN val.num
             ELSE IF Truthy(val) THEN 1
             ELSE 0

\* the for loop of getMonthlyGoalProgress over Object.values(state.days);
\* the order of the entries does not change the sum
RECURSIVE ProgressLoop(_, _, _, _)
ProgressLoop(s, goalId, dates, count) ==
    IF dates = <<>> THEN count
    ELSE ProgressLoop(s, goalId, Tail(dates),
                      count + progressStep(s.days[Head(dates)], goalId))

getMonthlyGoalProgress(s, goalId) ==
    ProgressLoop(s, goalId, SortedKeys(s.days), 0)

\* the while (true) loop of calculateStreak; now is getDateString()
RECURSIVE StreakLoop(_, _, _, _)
StreakLoop(s, now, date, streak) ==
    LET stats == getDayStats(s, date)
    IN  IF stats.percent < 50 /\ stats.dailyTotal > 0 THEN streak
        ELSE IF ~Has(s.days, date) /\ date # now THEN streak
        ELSE StreakLoop(s, now, addDays(date, -1), streak + 1)

calculateStreak_FromMinusOne(s, now) == StreakLoop(s, now, now, -1)

calculateStreak_CountsBreak(s, now) == StreakLoop(s, now, now, 1)

calculateStreak(s, now) == StreakLoop(s, now, now, 0)

nextCurrent_NoGapTest(current, prevDate, date) == current + 1

\* the run length after a date that counts
nextCurrent(current, prevDate, date) ==
    IF prevDate # NoDate /\ addDays(prevDate, 1) = date THEN current + 1 ELSE 1

\* the for loop of getLongestStreak over the sorted dates
RECURSIVE LongestLoop(_, _, _, _, _)
LongestLoop(s, dates, longest, current, prevDate) ==
    IF dates = <<>> THEN longest
    ELSE LET date == Head(dates)
             stats == getDayStats(s, date)
         IN  IF stats.percent >= 50
             THEN LET cur == nextCurrent(current, prevDate, date)
                  IN  LongestLoop(s, Tail(dates),
                                  IF cur > longest THEN cur ELSE longest, cur, date)
             ELSE LongestLoop(s, Tail(dates), longest, 0, date)

getLongestStreak(s) ==
    LET dates == SortedKeys(s.days)
    IN  IF Len(dates) = 0 THEN 0 ELSE LongestLoop(s, dates, 0, 0, NoDate)

hexStatus_NoFuture(s, now, date, percent) ==
    IF date = now THEN "today"
    ELSE IF ~Has(s.days, date) THEN "past-empty"
    ELSE IF percent >= 90 THEN "past-perfect"
    ELSE IF percent >= 50 THEN "past-good"
    ELSE "past-partial"

\* the status chain of getHexGridData; now is getDateString()
hexStatus(s, now, date, percent) ==
    IF date = now THEN "today"
    ELSE IF date > now THEN "future"
    ELSE IF ~Has(s.days, date) THEN "past-empty"
    ELSE IF percent >= 90 THEN "past-perfect"
    ELSE IF percent >= 50 THEN "past-good"
    ELSE "past-partial"

\* the loop index i of the code is k - 1
getHexGridData(s, now) ==
    [k \in 1 .. RAMADAN_DAYS |->
        LET date == addDays(s.ramadanStartDate, k - 1)
            stats == getDayStats(s, date)
        IN  [day |-> k,
             date |-> date,
             status |-> hexStatus(s, now, date, stats.percent),
             completionPercent |-> stats.percent]]

-----------------------------------------------------------------------------
(* The documents a session starts from: loadState returns the default       *)
(* document, or a persisted current-version document as it was saved.  The  *)
(* persisted ones here are the default with basics switched off in Setup.   *)

RECURSIVE DisableBasics(_, _)
DisableBasics(s, ids) ==
    IF ids = <<>> THEN s
    ELSE DisableBasics(toggleBasicEnabled(s, Head(ids)), Tail(ids))

LoadedStates ==
    {getDefaultState("en"),
     DisableBasics(getDefaultState("en"), <<"dhuhr", "asr", "maghrib", "isha">>),
     DisableBasics(getDefaultState("en"), <<"dhuhr", "asr", "maghrib", "isha", "fasting">>)}

-----------------------------------------------------------------------------
(* Operations: each applies one transform to the document the UI holds *)

ToggleBasicEnabled(ids) ==
    /\ \E id \in ids : state' = toggleBasicEnabled(state, id)
    /\ UNCHANGED <<today, stored, reminder, selected>>

AddHabit(habits) ==
    /\ \E h \in habits : state' = addHabit(state, h)
    /\ UNCHANGED <<today, stored, reminder, selected>>

AddHabits(habits, maxLen) ==
    /\ \E hs \in SeqsUpTo(habits, MaxBatch) :
          /\ Len(addHabits(state, hs).dailyHabits) <= maxLen
          /\ state' = addHabits(state, hs)
    /\ UNCHANGED <<today, stored, reminder, selected>>

RemoveHabit(ids) ==
    /\ \E id \in ids : state' = removeHabit(state, id)
    /\ UNCHANGED <<today, stored, reminder, selected>>

ToggleHabitEnabled(ids) ==
    /\ \E id \in ids : state' = toggleHabitEnabled(state, id)
    /\ UNCHANGED <<today, stored, reminder, selected>>

AddMonthlyGoal ==
    /\ \E g \in GoalInputs : state' = addMonthlyGoal(state, g)
    /\ UNCHANGED <<today, stored, reminder, selected>>

RemoveMonthlyGoal ==
    /\ \E id \in GoalIds : state' = removeMonthlyGoal(state, id)
    /\ UNCHANGED <<today, stored, reminder, selected>>

SetMonthlyGoals ==
    /\ \E gs \in SeqsUpTo(GoalInputs, MaxGoals) : state' = setMonthlyGoals(state, gs)
    /\ UNCHANGED <<today, stored, reminder, selected>>

UpdateMonthlyGoalTarget ==
    /\ \E id \in GoalIds, t \in Targets : state' = updateMonthlyGoalTarget(state, id, t)
    /\ UNCHANGED <<today, stored, reminder, selected>>

EnsureDayEntry ==
    /\ \E d \in Dates : state' = ensureDayEntry(state, d)
    /\ UNCHANGED <<today, stored, reminder, selected>>

ToggleBasicCompletion ==
    /\ \E d \in Dates, id \in BasicInputs : state' = toggleBasicCompletion(state, d, id)
    /\ UNCHANGED <<today, stored, reminder, selected>>

ToggleCompletion ==
    /\ \E d \in Dates, id \in HabitIds : state' = toggleCompletion(state, d, id)
    /\ UNCHANGED <<today, stored, reminder, selected>>

SetReflection ==
    /\ \E d \in Dates, text \in Texts : state' = setReflection(state, d, text)
    /\ UNCHANGED <<today, stored, reminder, selected>>

SetRamadanStartDate ==
    /\ \E d \in StartDates : state' = setRamadanStartDate(state, d)
    /\ UNCHANGED <<today, stored, reminder, selected>>

EnsureDayEntryOn(dates) ==
    /\ \E d \in dates : state' = ensureDayEntry(state, d)
    /\ UNCHANGED <<today, stored, reminder, selected>>

ToggleBasicCompletionOn(dates) ==
    /\ \E d \in dates, id \in BasicInputs : state' = toggleBasicCompletion(state, d, id)
    /\ UNCHANGED <<today, stored, reminder, selected>>

ToggleCompletionOn(dates) ==
    /\ \E d \in dates, id \in HabitIds : state' = toggleCompletion(state, d, id)
    /\ UNCHANGED <<today, stored, reminder, selected>>

AddMonthlyGoalOf(goals) ==
    /\ \E g \in goals : state' = addMonthlyGoal(state, g)
    /\ UNCHANGED <<today, stored, reminder, selected>>

RemoveMonthlyGoalOf(ids) ==
    /\ \E id \in ids : state' = removeMonthlyGoal(state, id)
    /\ UNCHANGED <<today, stored, reminder, selected>>

ToggleMonthlyGoalCompletion ==
    /\ \E d \in CalDates, id \in TrackedGoalIds :
          state' = toggleMonthlyGoalCompletion(state, d, id)
    /\ UNCHANGED <<today, stored, reminder, selected>>

SetMonthlyGoalCount ==
    /\ \E d \in CalDates, id \in TrackedGoalIds, count \in CountInputs :
          state' = setMonthlyGoalCount(state, d, id, count)
    /\ UNCHANGED <<today, stored, reminder, selected>>

\* the text under the storage key is whatever an earlier session, an older
\* version of the app or the user left there; a page load reads it
LoadState ==
    /\ \E raw \in StoredTexts \cup {JSONstringify(state)} :
          /\ stored' = raw
          /\ state' = loadState(raw)
    /\ UNCHANGED <<today, reminder, selected>>

\* handleImport: an import that is not null is saved and the page reloads
HandleImport ==
    /\ \E json \in ImportTexts \cup {exportData(state)} :
          LET imported == importData(json)
          IN  /\ imported # JSNull
              /\ stored' = saveState(imported)
              /\ state' = loadState(stored')
    /\ UNCHANGED <<today, reminder, selected>>

\* the clock passes midnight: getDateString() answers the next date
Midnight(last) ==
    /\ today < last
    /\ today' = addDays(today, 1)
    /\ UNCHANGED <<state, stored, reminder, selected>>

-----------------------------------------------------------------------------
(* Day tracking: a loaded document, tracked over the dates of the window;  *)
(* today is the last date of the window, the others are past days          *)

Init ==
    /\ state \in LoadedStates
    /\ today = LastDate
    /\ stored = AbsentText
    /\ reminder = NoReminder
    /\ selected = NoDate

Next ==
    \/ ToggleBasicEnabled(BasicInputs)
    \/ AddHabit(HabitInputs)
    \/ RemoveHabit(HabitIds)
    \/ ToggleHabitEnabled(HabitIds)
    \/ EnsureDayEntry
    \/ ToggleBasicCompletion
    \/ ToggleCompletion
    \/ SetReflection

Spec == Init /\ [][Next]_vars

(* Setup: the collections of a fresh default document *)

InitSetup ==
    /\ state = getDefaultState("en")
    /\ today = FirstDate
    /\ stored = AbsentText
    /\ reminder = NoReminder
    /\ selected = NoDate

NextSetup ==
    \/ ToggleBasicEnabled(BasicInputs)
    \/ AddHabit(SetupHabitInputs)
    \/ AddHabits(SetupHabitInputs, MaxHabits)
    \/ RemoveHabit(SetupHabitIds)
    \/ ToggleHabitEnabled(SetupHabitIds)
    \/ AddMonthlyGoal
    \/ RemoveMonthlyGoal
    \/ SetMonthlyGoals
    \/ UpdateMonthlyGoalTarget

SpecSetup == InitSetup /\ [][NextSetup]_vars

(* Calendar: days recorded anywhere in a longer window while the clock     *)
(* moves through it, so that recorded days lie before and after today      *)

\* one basic and one habit: a day is empty, half done or fully done
CalendarStates ==
    {DisableBasics(getDefaultState("en"), <<"dhuhr", "asr", "maghrib", "isha", "fasting">>)}

InitCalendar ==
    /\ state \in CalendarStates
    /\ today = FirstDate
    /\ stored = AbsentText
    /\ reminder = NoReminder
    /\ selected = NoDate

NextCalendar ==
    \/ SetRamadanStartDate
    \/ AddHabit(HabitInputs)
    \/ ToggleHabitEnabled(HabitIds)
    \/ EnsureDayEntryOn(CalDates)
    \/ ToggleBasicCompletionOn(CalDates)
    \/ ToggleCompletionOn(CalDates)
    \/ Midnight(LastCalDate)

SpecCalendar == InitCalendar /\ [][NextCalendar]_vars

(* Monthly goals: per-day counts of one goal, from the default document    *)
(* and from a document migrated from version 3, whose completions are      *)
(* booleans                                                                *)

LegacyDocument ==
    migrateToV4([version |-> 3,
                 enabledBasics |-> <<"fajr">>,
                 weeklyGoals |-> <<"weekly-charity">>,
                 days |-> (FirstDate :>
                              [basics |-> [fajr |-> TRUE],
                               weeklyCompletions |-> ("weekly-charity" :> TRUE)])])

InitGoals ==
    /\ state \in {getDefaultState("en"), LegacyDocument}
    /\ today = LastCalDate
    /\ stored = AbsentText
    /\ reminder = NoReminder
    /\ selected = NoDate

NextGoals ==
    \/ AddMonthlyGoalOf(TrackedGoals)
    \/ RemoveMonthlyGoalOf(TrackedGoalIds)
    \/ ToggleMonthlyGoalCompletion
    \/ SetMonthlyGoalCount

SpecGoals == InitGoals /\ [][NextGoals]_vars

(* Loading: the document the UI holds is whatever loadState returned for   *)
(* the text under the storage key, after a page load or an import          *)

InitLoad ==
    /\ stored = AbsentText
    /\ state = loadState(stored)
    /\ today = LastDate
    /\ reminder = NoReminder
    /\ selected = NoDate

NextLoad ==
    \/ LoadState
    \/ HandleImport

SpecLoad == InitLoad /\ [][NextLoad]_vars

(* Dates: the clock is set to another date of the same year, any number   *)
(* of days away; the years hold a leap day, a skipped leap day (2100) and  *)
(* their ends                                                              *)

Shifts == (0 - MaxShift) .. MaxShift

ClockYears == {2024, 2100}

ClockSet ==
    /\ \E n \in Shifts :
          /\ YearOf(addDays(today, n)) = YearOf(today)
          /\ today' = addDays(today, n)
    /\ UNCHANGED <<state, stored, reminder, selected>>

InitDates ==
    /\ state = getDefaultState("en")
    /\ today \in {DateStr(y, 1, 1) : y \in ClockYears}
    /\ stored = AbsentText
    /\ reminder = NoReminder
    /\ selected = NoDate

NextDates == ClockSet

SpecDates == InitDates /\ [][NextDates]_vars

-----------------------------------------------------------------------------
(* The UI handlers: the setup wizard, the journey grid and the day-detail  *)
(* view. Each handler is one action: the transform, the save and the       *)
(* change of the component's state.                                        *)

\* largest target the goal stepper is driven to
MaxTarget == 2

\* the two start dates the wizard offers
SetupDates == {DateStr(2026, 2, 18), DateStr(2026, 2, 19)}

\* the counts the day-detail stepper sends
DetailCounts == {0, 2}

galleryToHabit(id) == Habit(id, TRUE)

galleryToMonthlyGoal(id, target) == Goal(id, target)

IndexOfGoal(s, goalId) ==
    CHOOSE i \in 1 .. Len(s.monthlyGoals) : s.monthlyGoals[i].id = goalId

\* persist of the journey grid: setState(next); saveState(next)
persist(next) ==
    /\ state' = next
    /\ stored' = saveState(next)

\* the page (wizard or journey) mounts: useState(() => loadState())
PageLoad ==
    /\ state' = loadState(stored)
    /\ selected' = NoDate
    /\ UNCHANGED <<today, stored, reminder>>

HandleDateSelect ==
    /\ selected = NoDate
    /\ \E date \in SetupDates :
          LET next == setRamadanStartDate(state, date)
          IN  /\ stored' = saveState(next)
              /\ state' = next
    /\ UNCHANGED <<today, reminder, selected>>

HandleGalleryToggle ==
    /\ selected = NoDate
    /\ \E id \in HabitIds :
          LET exists == \E i \in 1 .. Len(state.dailyHabits) :
                            state.dailyHabits[i].id = id
              next == IF exists THEN removeHabit(state, id)
                      ELSE addHabit(state, galleryToHabit(id))
          IN  /\ stored' = saveState(next)
              /\ state' = next
    /\ UNCHANGED <<today, reminder, selected>>

HandleGoalIncrement ==
    /\ selected = NoDate
    /\ \E id \in TrackedGoalIds :
          LET existing == \E i \in 1 .. Len(state.monthlyGoals) :
                              state.monthlyGoals[i].id = id
              next == IF ~existing
                      THEN addMonthlyGoal(state, galleryToMonthlyGoal(id, 1))
                      ELSE updateMonthlyGoalTarget(
                               state, id,
                               state.monthlyGoals[IndexOfGoal(state, id)].target + 1)
          IN  /\ existing =>
                    state.monthlyGoals[IndexOfGoal(state, id)].target < MaxTarget
              /\ stored' = saveState(next)
              /\ state' = next
    /\ UNCHANGED <<today, reminder, selected>>

\* the minus button is rendered for a selected goal only
HandleGoalDecrement ==
    /\ selected = NoDate
    /\ \E id \in TrackedGoalIds :
          LET existing == \E i \in 1 .. Len(state.monthlyGoals) :
                              state.monthlyGoals[i].id = id
          IN  /\ existing
              /\ LET target == state.monthlyGoals[IndexOfGoal(state, id)].target
                     next == IF target <= 1 THEN removeMonthlyGoal(state, id)
                             ELSE updateMonthlyGoalTarget(state, id, target - 1)
                 IN  /\ stored' = saveState(next)
                     /\ state' = next
    /\ UNCHANGED <<today, reminder, selected>>

HandleComplete ==
    /\ selected = NoDate
    /\ LET next == completeSetup(state)
       IN  /\ stored' = saveState(next)
           /\ state' = next
    /\ UNCHANGED <<today, reminder, selected>>

\* a day that is not in the future is tapped: the entry is created and
\* persisted if it is missing, and the day opens
HandleTap ==
    /\ \E date \in {FirstDate} :
          LET withEntry == ensureDayEntry(state, date)
          IN  /\ date <= today
              /\ IF withEntry # state
                 THEN persist(withEntry)
                 ELSE UNCHANGED <<state, stored>>
              /\ selected' = date
    /\ UNCHANGED <<today, reminder>>

\* onClose of the day-detail view
CloseDetail ==
    /\ selected # NoDate
    /\ selected' = NoDate
    /\ UNCHANGED <<state, today, stored, reminder>>

\* the handlers of the day-detail view save, then hand the document to
\* onStateChange, which is persist
HandleToggleBasic ==
    /\ selected # NoDate
    /\ \E basicId \in BasicInputs :
          LET next == toggleBasicCompletion(
                          ensureDayEntry(state, selected), selected, basicId)
          IN  /\ stored' = saveState(next)
              /\ persist(next)
    /\ UNCHANGED <<today, reminder, selected>>

HandleToggleHabit ==
    /\ selected # NoDate
    /\ \E i \in 1 .. Len(state.dailyHabits) :
          LET next == toggleCompletion(
                          ensureDayEntry(state, selected), selected,
                          state.dailyHabits[i].id)
          IN  /\ stored' = saveState(next)
              /\ persist(next)
    /\ UNCHANGED <<today, reminder, selected>>

HandleSetMonthlyGoalCount ==
    /\ selected # NoDate
    /\ \E i \in 1 .. Len(state.monthlyGoals), count \in DetailCounts :
          LET next == setMonthlyGoalCount(
                          ensureDayEntry(state, selected), selected,
                          state.monthlyGoals[i].id, count)
          IN  /\ stored' = saveState(next)
              /\ persist(next)
    /\ UNCHANGED <<today, reminder, selected>>

HandleReflection ==
    /\ selected # NoDate
    /\ \E text \in Texts :
          LET next == setReflection(
                          ensureDayEntry(state, selected), selected, text)
          IN  /\ stored' = saveState(next)
              /\ persist(next)
    /\ UNCHANGED <<today, reminder, selected>>

\* a document an older version wrote, with one tracked day
LegacyStored ==
    OldFull(3, (FirstDate :> [basics |-> [fajr |-> TRUE],
                              completions |-> [h1 |-> TRUE],
                              weeklyCompletions |-> ("weekly-charity" :> TRUE),
                              reflection |-> "First"]))

\* what the session finds under the storage key
PersistTexts ==
    {AbsentText, MalformedText,
     JSONstringify(LegacyStored), JSONstringify(CurrentFull(APP_STATE_VERSION))}

InitPersist ==
    /\ stored \in PersistTexts
    /\ state = loadState(stored)
    /\ today = LastDate
    /\ reminder = NoReminder
    /\ selected = NoDate

SetupHandlers ==
    \/ HandleDateSelect
    \/ HandleGalleryToggle
    \/ HandleGoalIncrement
    \/ HandleGoalDecrement
    \/ HandleComplete

DetailHandlers ==
    \/ HandleToggleBasic
    \/ HandleToggleHabit
    \/ HandleSetMonthlyGoalCount
    \/ HandleReflection

NextPersist ==
    \/ PageLoad
    \/ SetupHandlers
    \/ HandleTap
    \/ CloseDetail
    \/ DetailHandlers

SpecPersist == InitPersist /\ [][NextPersist]_vars

-----------------------------------------------------------------------------
(* Vocabulary of the properties, stated on the document itself *)

EnabledBasicSet(s) == {s.enabledBasics[i] : i \in DOMAIN s.enabledBasics}

EnabledHabitIndexes(s) == {i \in DOMAIN s.dailyHabits : s.dailyHabits[i].enabled}

\* positions of enabledBasics whose basic is recorded true in the entry
CheckedBasicIndexes(s, entry) ==
    {i \in DOMAIN s.enabledBasics :
        /\ s.enabledBasics[i] \in DOMAIN entry.basics
        /\ entry.basics[s.enabledBasics[i]]}

\* positions of dailyHabits that are enabled and recorded true in the entry
CheckedHabitIndexes(s, entry) ==
    {i \in EnabledHabitIndexes(s) :
        /\ s.dailyHabits[i].id \in DOMAIN entry.completions
        /\ entry.completions[s.dailyHabits[i].id]}

\* the dates looked at: the window and the day before it (never recorded)
ProbeDates == Dates \cup {addDays(FirstDate, -1)}

\* every field of the document except days
SameSettings(s1, s2) ==
    /\ s1.version = s2.version
    /\ s1.locale = s2.locale
    /\ s1.setupComplete = s2.setupComplete
    /\ s1.ramadanStartDate = s2.ramadanStartDate
    /\ s1.enabledBasics = s2.enabledBasics
    /\ s1.dailyHabits = s2.dailyHabits
    /\ s1.monthlyGoals = s2.monthlyGoals

-----------------------------------------------------------------------------
\* C1: ensureDayEntry never overwrites and is idempotent: on a date that has
\* an entry it returns the document as it is, and on any date a second
\* application returns what the first returned.
C1_EnsureIdempotent ==
    \A d \in ProbeDates :
        /\ Has(state.days, d) => ensureDayEntry(state, d) = state
        /\ ensureDayEntry(ensureDayEntry(state, d), d) = ensureDayEntry(state, d)

\* an entry with a checked basic, a checked habit and a reflection, beside a
\* date that has no entry yet
C1_Witness ==
    \E d \in Dates, e \in Dates :
        /\ Has(state.days, d)
        /\ IsTrue(state.days[d].basics, "fajr")
        /\ IsTrue(state.days[d].completions, "h1")
        /\ state.days[d].reflection # ""
        /\ ~Has(state.days, e)
        /\ ensureDayEntry(state, d) = state
        /\ ensureDayEntry(state, e) # state

\* C2: the percent of every date lies in 0..100 in every reachable document.
C2_PercentBounds ==
    \A d \in ProbeDates :
        /\ getDayStats(state, d).percent >= 0
        /\ getDayStats(state, d).percent <= 100

\* an entry keeps a checked basic and a checked habit that are both switched
\* off now, so that neither counts among the items that remain
C2_Witness ==
    \E d \in Dates :
        /\ Has(state.days, d)
        /\ IsTrue(state.days[d].basics, "fajr")
        /\ "fajr" \notin EnabledBasicSet(state)
        /\ IsTrue(state.days[d].completions, "h1")
        /\ \E i \in DOMAIN state.dailyHabits :
              state.dailyHabits[i].id = "h1" /\ ~state.dailyHabits[i].enabled
        /\ state.enabledBasics # <<>>
        /\ getDayStats(state, d).percent = 0

\* C3: for a date with an entry and at least one trackable item, percent is
\* 100 * done / total rounded to the nearest integer (a tie going up), done
\* and total counted over the currently enabled basics and habits; one
\* checked habit beside six unchecked basics gives 14.
C3_PercentFormula ==
    \A d \in Dates :
        Has(state.days, d) =>
            LET entry == state.days[d]
                total == Len(state.enabledBasics) + Cardinality(EnabledHabitIndexes(state))
                done == Cardinality(CheckedBasicIndexes(state, entry))
                          + Cardinality(CheckedHabitIndexes(state, entry))
                p == getDayStats(state, d).percent
            IN  /\ total > 0 =>
                     /\ 2 * p * total <= 200 * done + total
                     /\ 200 * done + total < 2 * (p + 1) * total
                /\ (total = 7 /\ done = 1) => p = 14

\* the 14 % example: six enabled basics, none checked, and the one enabled
\* habit checked
C3_Witness ==
    \E d \in Dates :
        /\ Has(state.days, d)
        /\ Len(state.enabledBasics) = 6
        /\ CheckedBasicIndexes(state, state.days[d]) = {}
        /\ Cardinality(CheckedHabitIndexes(state, state.days[d])) = 1
        /\ Cardinality(EnabledHabitIndexes(state)) = 1
        /\ getDayStats(state, d).percent = 14

\* a ratio that rounds up: 2 of 3 items gives 67
C3_RoundsUp ==
    \E d \in Dates :
        /\ Has(state.days, d)
        /\ Len(state.enabledBasics) + Cardinality(EnabledHabitIndexes(state)) = 3
        /\ getDayStats(state, d).percent = 67

C5_TotalsAreCurrent ==
    \A d \in ProbeDates :
        /\ getDayStats(state, d).basicsTotal = Len(state.enabledBasics)
        /\ getDayStats(state, d).dailyTotal = Cardinality(EnabledHabitIndexes(state))

\* no two positions of a list of ids hold the same id
DistinctIds(ids) == \A i \in DOMAIN ids, j \in DOMAIN ids : ids[i] = ids[j] => i = j

\* C6: in every document reached from the default one the ids of
\* enabledBasics, of dailyHabits and of monthlyGoals are pairwise distinct.
C6_UniqueIds ==
    /\ DistinctIds(state.enabledBasics)
    /\ DistinctIds([i \in DOMAIN state.dailyHabits |-> state.dailyHabits[i].id])
    /\ DistinctIds([i \in DOMAIN state.monthlyGoals |-> state.monthlyGoals[i].id])

\* C7: addHabit and addMonthlyGoal return the document as it is when the id
\* is present, and otherwise lengthen the list by the new entry at the end,
\* every earlier entry staying at its position.
C7_AddKeepsOnePerId ==
    /\ \A h \in SetupHabitInputs :
          LET s1 == addHabit(state, h)
              old == state.dailyHabits
          IN  IF \E i \in DOMAIN old : old[i].id = h.id
              THEN s1 = state
              ELSE /\ Len(s1.dailyHabits) = Len(old) + 1
                   /\ s1.dailyHabits[Len(old) + 1] = h
                   /\ \A i \in DOMAIN old : s1.dailyHabits[i] = old[i]
                   /\ s1.monthlyGoals = state.monthlyGoals
    /\ \A g \in GoalInputs :
          LET s1 == addMonthlyGoal(state, g)
              old == state.monthlyGoals
          IN  IF \E i \in DOMAIN old : old[i].id = g.id
              THEN s1 = state
              ELSE /\ Len(s1.monthlyGoals) = Len(old) + 1
                   /\ s1.monthlyGoals[Len(old) + 1] = g
                   /\ \A i \in DOMAIN old : s1.monthlyGoals[i] = old[i]
                   /\ s1.dailyHabits = state.dailyHabits

\* one habit and one goal are present and one of each is absent, so both
\* branches of both functions are taken
C7_Witness ==
    /\ Len(state.dailyHabits) = 1
    /\ Len(state.monthlyGoals) = 1
    /\ \E h \in SetupHabitInputs :
          /\ h.id = state.dailyHabits[1].id
          /\ h # state.dailyHabits[1]
          /\ addHabit(state, h) = state
    /\ \E h \in SetupHabitInputs : Len(addHabit(state, h).dailyHabits) = 2
    /\ \E g \in GoalInputs :
          /\ g.id = state.monthlyGoals[1].id
          /\ g # state.monthlyGoals[1]
          /\ addMonthlyGoal(state, g) = state
    /\ \E g \in GoalInputs : Len(addMonthlyGoal(state, g).monthlyGoals) = 2

ToggleBasicIds == BasicInputs \cup {"isha"}
ToggleHabitIds == HabitIds \cup {"h-untracked"}

StopsStreak(s, now, date) ==
    \/ EnabledHabitIndexes(s) # {} /\ getDayStats(s, date).percent < 50
    \/ date # now /\ ~Has(s.days, date)

\* C10: calculateStreak is the number of days, walking back from today, before
\* the first day that stops the walk: a day on which habits are enabled and
\* percent < 50, or a past day without an entry.
C10_StreakCounts ==
    \E k \in 0 .. NumDays :
        /\ calculateStreak(state, today) = k
        /\ StopsStreak(state, today, addDays(today, -k))
        /\ \A i \in 0 .. k - 1 : ~StopsStreak(state, today, addDays(today, -i))

\* the same count wherever today has an entry or no habit is enabled
C10_StreakCountsRecordedToday ==
    (Has(state.days, today) \/ EnabledHabitIndexes(state) = {}) => C10_StreakCounts

-----------------------------------------------------------------------------
\* the date is recorded and at least half of its items are done
Counts(s, date) == Has(s.days, date) /\ getDayStats(s, date).percent >= 50

\* the length of the longest run of consecutive calendar dates that all count
LongestRun(s) ==
    LET lengths == {k \in 1 .. Cardinality(DOMAIN s.days) :
                       \E d \in DOMAIN s.days :
                           \A i \in 0 .. k - 1 : Counts(s, addDays(d, i))}
    IN  IF lengths = {} THEN 0
        ELSE CHOOSE k \in lengths : \A j \in lengths : j <= k

\* C11: getLongestStreak is the length of the longest run of consecutive
\* calendar dates that all have an entry with percent >= 50, and 0 when no
\* date counts; a recorded date below 50 or a gap between recorded dates
\* ends the run; the value is the same whatever today's date is
C11_LongestStreakIsLongestRun ==
    getLongestStreak(state) = LongestRun(state)

\* two recorded days that count, separated by a day without an entry
C11_Witness ==
    \E d \in CalDates :
        /\ Counts(state, d)
        /\ ~Has(state.days, addDays(d, 1))
        /\ Counts(state, addDays(d, 2))
        /\ getLongestStreak(state) = 1

\* C12: in every state the current streak and the longest streak are both
\* at least 0
C12_StreaksNonNegative ==
    /\ calculateStreak(state, today) >= 0
    /\ getLongestStreak(state) >= 0

\* today stops the current streak at once while an earlier day counts
C12_Witness ==
    /\ Has(state.days, today)
    /\ getDayStats(state, today).dailyTotal > 0
    /\ getDayStats(state, today).percent < 50
    /\ calculateStreak(state, today) = 0
    /\ getLongestStreak(state) >= 1

\* the status the grid shows for a date, by disjoint cases
ExpectedStatus(s, now, date) ==
    LET p == getDayStats(s, date).percent
    IN  CASE date = now -> "today"
          [] date > now -> "future"
          [] date < now /\ ~Has(s.days, date) -> "past-empty"
          [] date < now /\ Has(s.days, date) /\ p >= 90 -> "past-perfect"
          [] date < now /\ Has(s.days, date) /\ p >= 50 /\ p < 90 -> "past-good"
          [] date < now /\ Has(s.days, date) /\ p < 50 -> "past-partial"

\* C15: getHexGridData returns exactly 30 entries; entry i has day i, the
\* date i - 1 days after ramadanStartDate, the percent of getDayStats for
\* that date, and the status today / future / past-empty (no entry,
\* whatever the percent) / past-perfect (>= 90) / past-good (>= 50) /
\* past-partial
C15_HexGrid ==
    LET grid == getHexGridData(state, today)
    IN  /\ DOMAIN grid = 1 .. 30
        /\ \A i \in 1 .. 30 :
              /\ grid[i].day = i
              /\ grid[i].date = addDays(state.ramadanStartDate, i - 1)
              /\ grid[i].completionPercent = getDayStats(state, grid[i].date).percent
              /\ grid[i].status = ExpectedStatus(state, today, grid[i].date)

\* a grid with an empty past day, a good past day and a recorded future day
C15_Witness ==
    LET grid == getHexGridData(state, today)
    IN  /\ \E i \in DOMAIN grid : grid[i].status = "past-empty"
        /\ \E i \in DOMAIN grid :
              grid[i].status \in {"past-good", "past-perfect"}
        /\ \E i \in DOMAIN grid :
              /\ grid[i].status = "future"
              /\ Has(state.days, grid[i].date)
              /\ grid[i].completionPercent >= 50

\* C16: disabling a habit does not change past statistics: for every past
\* date that already has an entry, the percent of getDayStats is the same
\* before and after toggleHabitEnabled disables the habit
C16_DisableKeepsPastPercent ==
    \A id \in HabitIds :
        (\E i \in DOMAIN state.dailyHabits :
            state.dailyHabits[i].id = id /\ state.dailyHabits[i].enabled)
        => \A d \in Dates :
              (d < today /\ Has(state.days, d))
              => getDayStats(toggleHabitEnabled(state, id), d).percent
                    = getDayStats(state, d).percent

\* C17: toggleHabitEnabled flips only the enabled flag of the habit with
\* the given id: the list keeps its length and order, every other habit is
\* the same, days and every other field are the same, and a second call
\* restores the original dailyHabits
C17_ToggleEnabledFrame ==
    \A id \in ToggleHabitIds :
        LET s1 == toggleHabitEnabled(state, id)
            s2 == toggleHabitEnabled(s1, id)
        IN  /\ Len(s1.dailyHabits) = Len(state.dailyHabits)
            /\ \A i \in DOMAIN state.dailyHabits :
                  /\ s1.dailyHabits[i].id = state.dailyHabits[i].id
                  /\ s1.dailyHabits[i].enabled =
                        IF state.dailyHabits[i].id = id
                        THEN ~state.dailyHabits[i].enabled
                        ELSE state.dailyHabits[i].enabled
            /\ s1.days = state.days
            /\ s1.version = state.version
            /\ s1.locale = state.locale
            /\ s1.setupComplete = state.setupComplete
            /\ s1.ramadanStartDate = state.ramadanStartDate
            /\ s1.enabledBasics = state.enabledBasics
            /\ s1.monthlyGoals = state.monthlyGoals
            /\ s2.dailyHabits = state.dailyHabits

\* a disabled habit whose completion is recorded is switched back on
C17_Witness ==
    /\ \E i \in DOMAIN state.dailyHabits :
          state.dailyHabits[i].id = "h1" /\ ~state.dailyHabits[i].enabled
    /\ \E d \in Dates : Has(state.days, d) /\ IsTrue(state.days[d].completions, "h1")
    /\ toggleHabitEnabled(state, "h1").dailyHabits # state.dailyHabits

\* what the entry of a date counts for a goal: a number as itself, the
\* legacy true as 1, anything else and a missing entry or key as 0
DayValue(s, date, goalId) ==
    IF Has(s.days, date) /\ Has(s.days[date].monthlyGoalCompletions, goalId)
    THEN LET v == s.days[date].monthlyGoalCompletions[goalId]
         IN  CASE v.type = "number" -> v.num
               [] v.type = "boolean" /\ v.bool -> 1
               [] OTHER -> 0
    ELSE 0

RECURSIVE TotalOver(_, _, _)
TotalOver(s, goalId, dates) ==
    IF dates = {} THEN 0
    ELSE LET d == CHOOSE x \in dates : TRUE
         IN  DayValue(s, d, goalId) + TotalOver(s, goalId, dates \ {d})

TargetOf(s, goalId) ==
    LET i == CHOOSE j \in DOMAIN s.monthlyGoals : s.monthlyGoals[j].id = goalId
    IN  s.monthlyGoals[i].target

\* C13: getMonthlyGoalProgress is the sum over all day entries of the
\* goal's value, a number counting as itself and the legacy true as 1; the
\* sum is not clamped at the goal's target
C13_ProgressIsSum ==
    \A g \in TrackedGoalIds \cup {"monthly-itikaf"} :
        getMonthlyGoalProgress(state, g) = TotalOver(state, g, DOMAIN state.days)

\* a legacy true and two counts that together exceed the goal's target
C13_Witness ==
    \E g \in TrackedGoalIds :
        /\ \E i \in DOMAIN state.monthlyGoals : state.monthlyGoals[i].id = g
        /\ \E d \in DOMAIN state.days :
              /\ Has(state.days[d].monthlyGoalCompletions, g)
              /\ state.days[d].monthlyGoalCompletions[g] = JSBoolean(TRUE)
        /\ \E d \in DOMAIN state.days :
              /\ Has(state.days[d].monthlyGoalCompletions, g)
              /\ state.days[d].monthlyGoalCompletions[g] = JSNumber(3)
        /\ getMonthlyGoalProgress(state, g) > TargetOf(state, g)

\* the example of three days with counts 2, 3 and 4 under a target of 5
C13_Example ==
    \A d1 \in CalDates, d2 \in CalDates, d3 \in CalDates :
        (/\ DOMAIN state.days = {d1, d2, d3}
         /\ DayValue(state, d1, "monthly-charity") = 2
         /\ DayValue(state, d2, "monthly-charity") = 3
         /\ DayValue(state, d3, "monthly-charity") = 4
         /\ \E i \in DOMAIN state.monthlyGoals :
               state.monthlyGoals[i] = Goal("monthly-charity", 5))
        => getMonthlyGoalProgress(state, "monthly-charity") = 9

C13_ExampleReached ==
    /\ DOMAIN state.days = CalDates
    /\ {DayValue(state, d, "monthly-charity") : d \in CalDates} = {2, 3, 4}
    /\ state.monthlyGoals = <<Goal("monthly-charity", 5)>>
    /\ getMonthlyGoalProgress(state, "monthly-charity") = 9

\* C14: setMonthlyGoalCount stores max(0, count) for every integer count,
\* counts above the goal's target included, and every stored per-day count
\* is at least 0 after any sequence of setMonthlyGoalCount and
\* toggleMonthlyGoalCompletion
C14_CountsNonNegative ==
    /\ \A d \in CalDates, g \in TrackedGoalIds, count \in -2 .. MaxCount + 1 :
          setMonthlyGoalCount(state, d, g, count).days[d].monthlyGoalCompletions[g]
             = JSNumber(IF count < 0 THEN 0 ELSE count)
    /\ \A d \in DOMAIN state.days :
          \A g \in DOMAIN state.days[d].monthlyGoalCompletions :
              LET v == state.days[d].monthlyGoalCompletions[g]
              IN  v.type = "number" => v.num >= 0

\* a stored count above the target of its goal, next to a stored 0
C14_Witness ==
    \E g \in TrackedGoalIds :
        /\ \E i \in DOMAIN state.monthlyGoals : state.monthlyGoals[i].id = g
        /\ \E d \in DOMAIN state.days :
              /\ Has(state.days[d].monthlyGoalCompletions, g)
              /\ state.days[d].monthlyGoalCompletions[g].type = "number"
              /\ state.days[d].monthlyGoalCompletions[g].num > TargetOf(state, g)
        /\ \E d \in DOMAIN state.days :
              /\ Has(state.days[d].monthlyGoalCompletions, g)
              /\ state.days[d].monthlyGoalCompletions[g] = JSNumber(0)

\* a document of the current version that has the four collections
IsCurrentDocument(v) ==
    /\ IsObject(v)
    /\ {"version", "enabledBasics", "dailyHabits", "monthlyGoals", "days"}
          \subseteq DOMAIN v
    /\ v.version = 4

\* C19: loadState always returns a fully migrated document: whatever text
\* is stored (absent, unparseable, parseable but not a document, an older
\* version, the current version), the result is the default document or a
\* document with version 4 that has enabledBasics, dailyHabits,
\* monthlyGoals and days
C19_LoadedIsDocument ==
    state = getDefaultState("en") \/ IsCurrentDocument(state)

\* the parsed value has a version field and the four collections
PlausibleDocument(v) ==
    /\ IsObject(v)
    /\ {"version", "enabledBasics", "dailyHabits", "monthlyGoals", "days"}
          \subseteq DOMAIN v

\* C20: importData returns null for text that is not valid JSON, for a
\* parsed value without a version field and for a parsed value with a
\* version field that lacks days, dailyHabits, monthlyGoals or
\* enabledBasics; every result that is not null is a document of the
\* current version
C20_ImportRejectsImplausible ==
    \A json \in ImportTexts \cup {exportData(state)} :
        LET imported == importData(json)
        IN  /\ (json.kind # "json" \/ ~PlausibleDocument(json.value))
                  => imported = JSNull
            /\ imported # JSNull => IsCurrentDocument(imported)

StoredVersionIn(versions) ==
    /\ stored.kind = "json"
    /\ IsObject(stored.value)
    /\ Has(stored.value, "version")
    /\ stored.value.version \in versions

\* the monthly id an old weekly id stands for, and the gallery's targets
MonthlyIdOf ==
    ("weekly-charity" :> "monthly-charity") @@
    ("weekly-itikaf" :> "monthly-itikaf") @@
    ("weekly-retired" :> "monthly-retired")

GalleryTargets ==
    ("monthly-charity" :> 4) @@ ("monthly-quran-khatm" :> 1) @@
    ("monthly-family-iftar" :> 4) @@ ("monthly-lecture" :> 8) @@
    ("monthly-visit-sick" :> 3) @@ ("monthly-itikaf" :> 10) @@
    ("monthly-feed-fasting" :> 10) @@ ("monthly-night-prayer" :> 15)

\* C22: migrating a document of version below 4 maps each old weekly goal
\* id to the monthly id with the prefix replaced: the migrated monthlyGoals
\* holds that goal, with the gallery's default target, exactly when the
\* monthly id is in the gallery; ids without a counterpart are dropped and
\* nothing else is added; importData migrates the goals the same way
C22_GoalsMigrated ==
    StoredVersionIn(0 .. 3) =>
        LET old == stored.value
            oldIds == Field(old, "weeklyGoals", <<>>)
        IN  /\ IsCurrentDocument(state)
            /\ \A i \in DOMAIN oldIds :
                  LET monthlyId == MonthlyIdOf[oldIds[i]]
                  IN  IF monthlyId \in DOMAIN GalleryTargets
                      THEN \E j \in DOMAIN state.monthlyGoals :
                              state.monthlyGoals[j]
                                 = Goal(monthlyId, GalleryTargets[monthlyId])
                      ELSE \A j \in DOMAIN state.monthlyGoals :
                              state.monthlyGoals[j].id # monthlyId
            /\ \A j \in DOMAIN state.monthlyGoals :
                  \E i \in DOMAIN oldIds :
                      state.monthlyGoals[j].id = MonthlyIdOf[oldIds[i]]
            /\ old.version # 0 =>
                  importData(stored).monthlyGoals = state.monthlyGoals

\* an old document with one goal of the gallery and one that is gone
C22_Witness ==
    /\ StoredVersionIn({2, 3})
    /\ Has(stored.value, "weeklyGoals")
    /\ \E i \in DOMAIN stored.value.weeklyGoals :
          stored.value.weeklyGoals[i] = "weekly-retired"
    /\ state.monthlyGoals = <<Goal("monthly-charity", 4)>>

\* C23: migration from version 1, 2 or 3 keeps the user's data: every date
\* of the old document is a date of the migrated one, with the same habit
\* completions and the same reflection; an old basics map and the old
\* enabledBasics list are carried over unchanged
C23_MigrationKeepsData ==
    StoredVersionIn(1 .. 3) =>
        LET old == stored.value
            oldDays == Field(old, "days", EmptyMap)
        IN  /\ \A date \in DOMAIN oldDays :
                  /\ Has(state.days, date)
                  /\ state.days[date].completions
                        = Field(oldDays[date], "completions", EmptyMap)
                  /\ state.days[date].reflection
                        = Field(oldDays[date], "reflection", "")
                  /\ Has(oldDays[date], "basics")
                        => state.days[date].basics = oldDays[date].basics
            /\ Has(old, "enabledBasics")
                  => state.enabledBasics = old.enabledBasics

\* a version 2 document with a recorded day has been loaded
C23_Witness ==
    /\ StoredVersionIn({2})
    /\ Has(stored.value, "days")
    /\ Has(stored.value, "enabledBasics")
    /\ Has(stored.value.days[FirstDate], "basics")
    /\ IsTrue(state.days[FirstDate].completions, "h1")
    /\ state.days[FirstDate].reflection = "First"

\* the handlers the user drives in the wizard, the grid and the day view
UIHandlers == SetupHandlers \/ HandleTap \/ DetailHandlers

C26_OnePendingTimer ==
    Cardinality(reminder.pending) <= 1

\* a timer was set again while a showReminder call is still suspended
C26_Witness ==
    /\ reminder.pending = {reminder.scheduledTimer}
    /\ reminder.atReady + reminder.atShow > 0
    /\ reminder.scheduledTimer # 1

\* C27: once disableReminder has returned and until enableReminder is
\* called again, the stored preference has enabled = false, no timer is
\* pending and no notification is shown, also when disableReminder ran
\* while showReminder was suspended at an await (a disableReminder that
\* ran while an enableReminder call was suspended is left out)
C27_StaysOff ==
    reminder.off =>
        /\ ~reminder.enabled
        /\ reminder.pending = {}
        /\ ~reminder.notified

MapSameExcept(m1, m0, k) ==
    /\ DOMAIN m1 = DOMAIN m0 \cup {k}
    /\ \A j \in DOMAIN m0 \ {k} : m1[j] = m0[j]

\* document s1 is document s0 but for one field of the entry of date d
SameExceptField(s1, s0, d, field) ==
    /\ DOMAIN s1 = DOMAIN s0
    /\ SameSettings(s1, s0)
    /\ DOMAIN s1.days = DOMAIN s0.days
    /\ \A e \in DOMAIN s0.days \ {d} : s1.days[e] = s0.days[e]
    /\ DOMAIN s1.days[d] = DOMAIN s0.days[d]
    /\ \A f \in DOMAIN s0.days[d] \ {field} : s1.days[d][f] = s0.days[d][f]

\* ids of goals handed to setMonthlyGoalCount, and the counts: one below
\* zero, which is stored as 0, and the largest
CountGoalIds == TrackedGoalIds \cup {"g1"}
FrameCounts == {-1, MaxCount}

\* C30: on a date that has an entry, toggleBasicCompletion,
\* toggleCompletion, setMonthlyGoalCount and setReflection change only the
\* addressed field of that entry (basics[id], completions[id],
\* monthlyGoalCompletions[id] or reflection): the other keys of the entry,
\* the entries of the other dates and version, locale, setupComplete,
\* ramadanStartDate, enabledBasics, dailyHabits and monthlyGoals stay
C30_PerDayFrame ==
    \A d \in DOMAIN state.days :
        /\ \A id \in ToggleBasicIds :
              LET s1 == toggleBasicCompletion(state, d, id)
              IN  /\ SameExceptField(s1, state, d, "basics")
                  /\ MapSameExcept(s1.days[d].basics, state.days[d].basics, id)
        /\ \A id \in ToggleHabitIds :
              LET s1 == toggleCompletion(state, d, id)
              IN  /\ SameExceptField(s1, state, d, "completions")
                  /\ MapSameExcept(s1.days[d].completions,
                                   state.days[d].completions, id)
        /\ \A id \in CountGoalIds, count \in FrameCounts :
              LET s1 == setMonthlyGoalCount(state, d, id, count)
              IN  /\ SameExceptField(s1, state, d, "monthlyGoalCompletions")
                  /\ MapSameExcept(s1.days[d].monthlyGoalCompletions,
                                   state.days[d].monthlyGoalCompletions, id)
        /\ \A text \in {"", "Second"} :
              SameExceptField(setReflection(state, d, text), state, d, "reflection")

\* two dates have entries; one holds a checked basic, a completed habit and
\* a reflection, and each of the four updates changes it
C30_Witness ==
    \E d \in DOMAIN state.days, e \in DOMAIN state.days :
        /\ d # e
        /\ IsTrue(state.days[d].basics, "fajr")
        /\ IsTrue(state.days[d].completions, "h1")
        /\ state.days[d].reflection = "First"
        /\ toggleBasicCompletion(state, d, "fajr").days[d].basics["fajr"] = FALSE
        /\ toggleCompletion(state, d, "h1").days[d].completions["h1"] = FALSE
        /\ getMonthlyGoalDayCount(
               setMonthlyGoalCount(state, d, "g1", MaxCount).days[d], "g1") = MaxCount
        /\ setReflection(state, d, "Second").days[d].reflection = "Second"

====
